---- MODULE Spec2Model ----
(***************************************************************************)
(* State-machine model of STTAiEditorPlugin (src/main.ts): the recording   *)
(* controller (toggleRecording / startRecording / stopRecording), the      *)
(* capture device callbacks (ondataavailable, onstop) and the pipeline     *)
(* handleStop -> transcribeAudio -> cleanText -> editor.replaceSelection.  *)
(*                                                                         *)
(* JavaScript runs the plugin on one thread: a handler runs to its next    *)
(* await on an external event without interleaving, so every action below  *)
(* is one such run-to-suspension step.  The external events are            *)
(*   - getUserMedia settling (grant / deny); with a stream granted, the    *)
(*     MediaRecorder's start() returning or throwing,                      *)
(*   - the MediaRecorder's dataavailable and stop events: the recorder is   *)
(*     started by start() with no timeslice, so it delivers what it has    *)
(*     gathered in one dataavailable event, followed by the stop event,    *)
(*     when the recording ends: after stop(), or when the device ends it   *)
(*     by itself (the microphone track ends),                              *)
(*   - FileReader loadend,                                                 *)
(*   - the recognition request (fetch + response.json()) settling,         *)
(*   - the generative request (generateContent) settling.                  *)
(***************************************************************************)
EXTENDS Integers, Sequences, FiniteSets, TLC

\* Bound on the number of startRecording() invocations in one behaviour.
MaxStarts == 2

\* The k-th startRecording() invocation, the MediaRecorder it constructs and
\* the handleStop run bound to that recorder's onstop all carry the id k.
Ids == 1..MaxStarts

\* `null` of mediaRecorder.
NULL == 0

\* genAI: `null`, or a GoogleGenerativeAI client built with an API key.
NoGenAI == [init |-> FALSE, apiKey |-> ""]

\* Placeholder for "no string held".
NoText == "<none>"

\* The user-visible Notice texts.
NoticeStarted == "Recording started..."
NoticeMicError == "Error accessing microphone. Please check permissions."
NoticeStopped == "Recording stopped."
NoticeProcessingError == "Error processing audio. Please check the console for details."
NoticeTexts == {NoticeStarted, NoticeMicError, NoticeStopped, NoticeProcessingError}

\* Values of settings.geminiApiKey the settings store / settings tab supply.
ApiKeys == {"", "gemini-key"}

\* DEFAULT_SETTINGS.geminiApiKey
DefaultGeminiApiKey == ""

\* Transcript strings a recognition response may carry.
Transcripts == {"", "helo wrld"}

\* Completion texts the generative service may return.
Completions == {"Helo wrld."}

VARIABLES
    loaded,         \* onload() has run
    settings,       \* settings.geminiApiKey
    genAI,          \* this.genAI: NoGenAI or a client record
    isRecording,    \* this.isRecording
    mediaRecorder,  \* this.mediaRecorder: NULL or the id of a recorder
    audioChunks,    \* this.audioChunks: sequence of segments [rec, size]
    startPc,        \* per startRecording() invocation: its position
    recorder,       \* per MediaRecorder: the device's state / pending events
    run,            \* per handleStop invocation: position and what it did
    notices         \* number of Notices shown, per text

vars == <<loaded, settings, genAI, isRecording, mediaRecorder, audioChunks,
          startPc, recorder, run, notices>>

----------------------------------------------------------------------------
(* Pure helpers *)

\* The data of one segment: `size` units of audio, each tagged with the
\* recorder that captured it.
RECURSIVE Data(_, _)
Data(rec, size) == IF size = 0 THEN <<>> ELSE <<rec>> \o Data(rec, size - 1)

\* new Blob(chunks, {type: 'audio/webm'}): the concatenation of the chunks'
\* data in array order; an empty chunk contributes nothing.
RECURSIVE Blob(_)
Blob(chunks) ==
    IF chunks = <<>> THEN <<>>
    ELSE Data(Head(chunks).rec, Head(chunks).size) \o Blob(Tail(chunks))

\* reader.readAsDataURL(blob): "data:audio/webm;base64,<payload>".
DataURL(blob) == <<"data:audio/webm;base64", blob>>

\* (reader.result as string).split(',')[1]
Base64Audio(url) == url[2]

\* The prompt template of cleanText: fixed instruction, then the text verbatim.
Prompt(text) == <<"Please clean up the following text", text>>

\* new Notice(text)
Notify(text) == [notices EXCEPT ![text] = @ + 1]

\* What the recognition request can settle with: fetch rejecting, the body
\* failing to parse, or a parsed body `data` whose `results` is absent or a
\* list of results, each a list of alternatives' transcripts.
Response(net, json, hasResults, results) ==
    [net |-> net, json |-> json, hasResults |-> hasResults, results |-> results]
Responses ==
    { Response(FALSE, FALSE, FALSE, <<>>),        \* network failure: fetch rejects
      Response(TRUE, FALSE, FALSE, <<>>),         \* undecodable body: response.json() rejects
      Response(TRUE, TRUE, FALSE, <<>>),          \* no `results` member (nothing recognised, or an error body)
      Response(TRUE, TRUE, TRUE, <<>>),           \* results: []
      Response(TRUE, TRUE, TRUE, << <<>> >>) }    \* results: [{alternatives: []}]
    \cup { Response(TRUE, TRUE, TRUE, << <<t>> >>) : t \in Transcripts }

\* A handleStop invocation.  blob, body, transcript, prompt and cleanedText are
\* its locals and requests in flight, gone when it returns (blob and body are
\* kept only until the recognition request has settled: nothing reads them
\* afterwards); the other fields
\* record what it did and met: requests sent, calls made, whether the
\* response carried a transcript, whether a client and an editor were there,
\* the completion the service returned, Notices shown, text handed to the
\* editor, and how often it reset audioChunks.
NoRun == [pc |-> "none", blob |-> <<>>, body |-> <<>>, transcript |-> NoText,
          prompt |-> <<>>, cleanedText |-> NoText,
          fetches |-> 0, noTranscript |-> FALSE,
          cleanCalls |-> 0, hadClient |-> FALSE,
          genCalls |-> 0, genOk |-> FALSE, completion |-> NoText,
          hadEditor |-> FALSE,
          sinkCalls |-> 0, sinkText |-> NoText,
          errNotices |-> 0, clears |-> 0]

\* handleStop returns: its locals are gone.
Returned(r) == [r EXCEPT !.pc = "done", !.blob = <<>>, !.body = <<>>,
                         !.transcript = NoText, !.prompt = <<>>,
                         !.cleanedText = NoText]

\* The responses that carry no transcript: network failure, undecodable
\* body, or no first alternative of a first result.
CarriesNoTranscript(resp) ==
    \/ ~resp.net
    \/ ~resp.json
    \/ ~resp.hasResults
    \/ resp.results = <<>>
    \/ resp.results[1] = <<>>

----------------------------------------------------------------------------
Init ==
    /\ loaded = FALSE
    /\ settings = DefaultGeminiApiKey
    /\ genAI = NoGenAI
    /\ isRecording = FALSE
    /\ mediaRecorder = NULL
    /\ audioChunks = <<>>
    /\ startPc = [i \in Ids |-> "none"]
    /\ recorder = [i \in Ids |-> "none"]
    /\ run = [i \in Ids |-> NoRun]
    /\ notices = [t \in NoticeTexts |-> 0]

----------------------------------------------------------------------------
(* Plugin life cycle and settings *)

\* onload(): loadSettings(), then build the generative client if a key is saved.
onload ==
    /\ ~loaded
    /\ \E saved \in ApiKeys :
        /\ settings' = saved
        /\ genAI' = IF saved # "" THEN [init |-> TRUE, apiKey |-> saved] ELSE NoGenAI
    /\ loaded' = TRUE
    /\ UNCHANGED <<isRecording, mediaRecorder, audioChunks, startPc, recorder,
                   run, notices>>

\* The settings tab's onChange for the Gemini API key: stores the value and saves.
setGeminiApiKey ==
    /\ loaded
    /\ \E value \in ApiKeys :
        /\ value # settings
        /\ settings' = value
    /\ UNCHANGED <<loaded, genAI, isRecording, mediaRecorder, audioChunks, startPc,
                   recorder, run, notices>>

----------------------------------------------------------------------------
(* RecordingController *)

\* The id the next startRecording() invocation gets.
CanStart == \E i \in Ids : startPc[i] = "none"
NextId == CHOOSE i \in Ids : startPc[i] = "none" /\ \A j \in 1..(i-1) : startPc[j] # "none"

\* startRecording() up to its await: getUserMedia is requested, nothing else.
startRecordingBody ==
    /\ CanStart
    /\ startPc' = [startPc EXCEPT ![NextId] = "awaitMedia"]
    /\ UNCHANGED <<isRecording, mediaRecorder, recorder, notices>>

\* stopRecording() testing only that a recorder exists.
stopGuard_recorderOnly(mr, rec) == mr # NULL

\* The condition of stopRecording().
stopGuard(mr, rec) == mr # NULL /\ rec

\* MediaRecorder.stop(): a recording recorder goes inactive and queues its last
\* dataavailable and its stop event; one that is not recording (never started,
\* or already ended) is left alone.
RecorderStop(i) ==
    IF recorder[i] = "recording" THEN [recorder EXCEPT ![i] = "flushing"] ELSE recorder

\* stopRecording()
stopRecordingBody ==
    IF stopGuard(mediaRecorder, isRecording)
    THEN /\ recorder' = RecorderStop(mediaRecorder)
         /\ isRecording' = FALSE
         /\ notices' = Notify(NoticeStopped)
         /\ UNCHANGED mediaRecorder
    ELSE UNCHANGED <<recorder, isRecording, notices, mediaRecorder>>

\* toggleRecording(): the ribbon icon's callback.
toggleRecording ==
    /\ loaded
    /\ IF isRecording
       THEN stopRecordingBody /\ UNCHANGED startPc
       ELSE startRecordingBody
    /\ UNCHANGED <<loaded, settings, genAI, audioChunks, run>>

\* startRecording() invoked directly.
startRecording ==
    /\ loaded
    /\ startRecordingBody
    /\ UNCHANGED <<loaded, settings, genAI, audioChunks, run>>

\* stopRecording() invoked directly.
stopRecording ==
    /\ loaded
    /\ stopRecordingBody
    /\ UNCHANGED <<loaded, settings, genAI, audioChunks, startPc, run>>

\* startRecording() resumed with a stream, start() returning: lines 54-61.
startRecordingTry(i) ==
    /\ mediaRecorder' = i
    /\ recorder' = [recorder EXCEPT ![i] = "recording"]
    /\ isRecording' = TRUE
    /\ notices' = Notify(NoticeStarted)

\* startRecording() resumed with a stream, start() throwing: lines 54-58 have
\* stored the new recorder and its handlers, line 59 throws, lines 60-61 are
\* skipped.  The recorder was never started.
startRecordingStartThrows(i) ==
    /\ mediaRecorder' = i
    /\ recorder' = [recorder EXCEPT ![i] = "built-not-started"]

\* The catch block of a startRecording() that raised the flag before the await.
startRecordingCatch_flagRaised(i) ==
    /\ notices' = Notify(NoticeMicError)
    /\ isRecording' = TRUE

\* The catch block of startRecording(), lines 62-65.
startRecordingCatch(i) ==
    /\ notices' = Notify(NoticeMicError)
    /\ UNCHANGED isRecording

\* How the try block of startRecording() can go on after the await:
\* getUserMedia rejects (or the MediaRecorder constructor throws: nothing is
\* stored either way), start() throws, or all of lines 54-61 run.
StartOutcomes == {"rejected", "startThrows", "started"}

\* getUserMedia settles for the i-th startRecording() invocation.
getUserMediaSettles(i) ==
    /\ startPc[i] = "awaitMedia"
    /\ \E outcome \in StartOutcomes :
        CASE outcome = "started" ->
                /\ startRecordingTry(i)
                /\ startPc' = [startPc EXCEPT ![i] = "started"]
          [] outcome = "startThrows" ->
                /\ startRecordingStartThrows(i)
                /\ startRecordingCatch(i)
                /\ startPc' = [startPc EXCEPT ![i] = "failed"]
          [] outcome = "rejected" ->
                /\ UNCHANGED <<mediaRecorder, recorder>>
                /\ startRecordingCatch(i)
                /\ startPc' = [startPc EXCEPT ![i] = "failed"]
    /\ UNCHANGED <<loaded, settings, genAI, audioChunks, run>>

----------------------------------------------------------------------------
(* Capture device events *)

\* The sizes of the chunk a recorder delivers: nothing gathered, or audio.
ChunkSizes == {0, 1}

\* The dataavailable event of recorder i, delivered when its recording ends:
\* queued by stop(), or fired while still recording when the device ends the
\* recording by itself.  The handler of lines 55-57 has no condition: it
\* pushes event.data, whatever its size and whatever the flag says.
ondataavailable(i) ==
    /\ recorder[i] \in {"recording", "flushing"}
    /\ \E size \in ChunkSizes :
        audioChunks' = Append(audioChunks, [rec |-> i, size |-> size])
    /\ recorder' = [recorder EXCEPT ![i] = "stopping"]
    /\ UNCHANGED <<loaded, settings, genAI, isRecording, mediaRecorder, startPc,
                   run, notices>>

----------------------------------------------------------------------------
(* Pipeline: handleStop, transcribeAudio, cleanText *)

\* The stop event of recorder i: handleStop() runs to the await inside
\* transcribeAudio, having built the blob and started the FileReader.
onstop(i) ==
    /\ recorder[i] = "stopping"
    /\ recorder' = [recorder EXCEPT ![i] = "inactive"]
    /\ run' = [run EXCEPT ![i] = [NoRun EXCEPT !.pc = "reading",
                                               !.blob = Blob(audioChunks)]]
    /\ UNCHANGED <<loaded, settings, genAI, isRecording, mediaRecorder, audioChunks,
                   startPc, notices>>

\* reader.onloadend.  With a result, the recognition request is sent.  After a
\* failed read reader.result is null and line 98 throws outside the try: the
\* promise transcribeAudio returned is neither resolved nor rejected, and
\* nothing can reach handleStop's locals again.
readerLoadEnd(i) ==
    /\ run[i].pc = "reading"
    /\ \E readOk \in BOOLEAN :
        run' = [run EXCEPT ![i] =
                  IF readOk
                  THEN [@ EXCEPT !.pc = "fetching", !.fetches = @ + 1,
                                 !.body = Base64Audio(DataURL(run[i].blob))]
                  ELSE [Returned(@) EXCEPT !.pc = "hung"]]
    /\ UNCHANGED <<loaded, settings, genAI, isRecording, mediaRecorder, audioChunks,
                   startPc, recorder, notices>>

\* transcribeAudio resolving with the missing transcript when the response
\* has no results, instead of rejecting.
transcribeAudio_resolvesEmpty(resp) ==
    IF ~resp.net THEN [ok |-> FALSE, text |-> NoText]
    ELSE IF ~resp.json THEN [ok |-> FALSE, text |-> NoText]
    ELSE IF resp.hasResults /\ Len(resp.results) > 0
         THEN IF Len(resp.results[1]) > 0
              THEN [ok |-> TRUE, text |-> resp.results[1][1]]
              ELSE [ok |-> FALSE, text |-> NoText]
         ELSE [ok |-> TRUE, text |-> ""]

\* transcribeAudio, lines 100-124: how the promise settles for a response.
transcribeAudio(resp) ==
    IF ~resp.net THEN [ok |-> FALSE, text |-> NoText]
    ELSE IF ~resp.json THEN [ok |-> FALSE, text |-> NoText]
    ELSE IF resp.hasResults /\ Len(resp.results) > 0
         THEN IF Len(resp.results[1]) > 0
              THEN [ok |-> TRUE, text |-> resp.results[1][1]]
              ELSE [ok |-> FALSE, text |-> NoText]
         ELSE [ok |-> FALSE, text |-> NoText]

\* cleanText up to its await, lines 130-135: throws without a client, else
\* sends the prompt.
cleanText(client, text) ==
    IF ~client.init THEN [threw |-> TRUE, prompt |-> <<>>]
    ELSE [threw |-> FALSE, prompt |-> Prompt(text)]

\* handleStop handing the raw transcript to the editor.
deliver_transcript(r, editor, cleanedText) ==
    IF editor THEN [r EXCEPT !.sinkCalls = @ + 1, !.sinkText = r.transcript] ELSE r

\* handleStop lines 81-84: the editor of the active Markdown view, if there is
\* one, gets the cleaned text.
deliver(r, editor, cleanedText) ==
    IF editor THEN [r EXCEPT !.sinkCalls = @ + 1, !.sinkText = cleanedText] ELSE r

\* A catch block that falls back to inserting the raw transcript.
handleStopCatch_fallback(r) ==
    IF r.transcript # NoText
    THEN [r EXCEPT !.errNotices = @ + 1, !.sinkCalls = @ + 1, !.sinkText = r.transcript]
    ELSE [r EXCEPT !.errNotices = @ + 1]

\* handleStop's catch block, lines 85-87.
handleStopCatch(r) == [r EXCEPT !.errNotices = @ + 1]

\* The reset of audioChunks placed at the end of the try block.
finallyBlock_inTry(chunks, failed) ==
    IF failed THEN [chunks |-> chunks, clears |-> 0] ELSE [chunks |-> <<>>, clears |-> 1]

\* handleStop's finally block, lines 88-90.
finallyBlock(chunks, failed) == [chunks |-> <<>>, clears |-> 1]

\* The end of handleStop for run i, whose record so far is r.
settle(i, r, failed) ==
    LET r1 == IF failed THEN handleStopCatch(r) ELSE r
        f == finallyBlock(audioChunks, failed)
    IN /\ run' = [run EXCEPT ![i] = Returned([r1 EXCEPT !.clears = @ + f.clears])]
       /\ audioChunks' = f.chunks
       /\ notices' = [notices EXCEPT ![NoticeProcessingError] =
                                        @ + (r1.errNotices - r.errNotices)]

\* The recognition request settles: transcribeAudio's promise settles and
\* handleStop continues to cleanText's await, or to its end.
recognitionSettles(i) ==
    /\ run[i].pc = "fetching"
    /\ \E resp \in Responses :
        LET t == transcribeAudio(resp)
            r0 == [run[i] EXCEPT !.noTranscript = CarriesNoTranscript(resp),
                                 !.transcript = t.text]
            c == cleanText(genAI, t.text)
            r1 == [r0 EXCEPT !.cleanCalls = @ + 1, !.hadClient = genAI.init]
        IN IF ~t.ok THEN settle(i, r0, TRUE)
           ELSE IF c.threw THEN settle(i, r1, TRUE)
           ELSE /\ run' = [run EXCEPT ![i] = [r1 EXCEPT !.pc = "generating",
                                                        !.blob = <<>>, !.body = <<>>,
                                                        !.genCalls = @ + 1,
                                                        !.prompt = c.prompt]]
                /\ UNCHANGED <<audioChunks, notices>>
    /\ UNCHANGED <<loaded, settings, genAI, isRecording, mediaRecorder, startPc,
                   recorder>>

\* The generative request settles (generateContent rejecting or
\* response.text() throwing is a failure): handleStop runs to its end.
generateSettles(i) ==
    /\ run[i].pc = "generating"
    /\ \E genOk \in BOOLEAN, text \in Completions, editor \in BOOLEAN :
        IF genOk
        THEN settle(i, deliver([run[i] EXCEPT !.genOk = TRUE, !.completion = text,
                                              !.cleanedText = text,
                                              !.hadEditor = editor],
                               editor, text), FALSE)
        ELSE settle(i, run[i], TRUE)
    /\ UNCHANGED <<loaded, settings, genAI, isRecording, mediaRecorder, startPc,
                   recorder>>

----------------------------------------------------------------------------
Next ==
    \/ onload
    \/ setGeminiApiKey
    \/ toggleRecording
    \/ startRecording
    \/ stopRecording
    \/ \E i \in Ids : getUserMediaSettles(i)
    \/ \E i \in Ids : ondataavailable(i)
    \/ \E i \in Ids : onstop(i)
    \/ \E i \in Ids : readerLoadEnd(i)
    \/ \E i \in Ids : recognitionSettles(i)
    \/ \E i \in Ids : generateSettles(i)

Spec == Init /\ [][Next]_vars

\* Every external call settles and every queued device event is delivered (a
\* device need not end a recording by itself); the operator ends every
\* recording that the controller shows as running.
Fairness ==
    /\ \A i \in Ids : WF_vars(getUserMediaSettles(i))
    /\ \A i \in Ids : WF_vars(recorder[i] = "flushing" /\ ondataavailable(i))
    /\ \A i \in Ids : WF_vars(onstop(i))
    /\ \A i \in Ids : WF_vars(readerLoadEnd(i))
    /\ \A i \in Ids : WF_vars(recognitionSettles(i))
    /\ \A i \in Ids : WF_vars(generateSettles(i))
    /\ WF_vars(isRecording /\ stopRecording)

FairSpec == Spec /\ Fairness

----------------------------------------------------------------------------
(* The controller's states, read off the plugin's fields *)

\* A handleStop invocation that has not returned.
InFlight(i) == run[i].pc \in {"reading", "hung", "fetching", "generating"}

\* A recorder whose recording has ended (by stop(), or by the device) and
\* whose stop event is still due.
Stopping(i) == recorder[i] \in {"flushing", "stopping"}

Recording == isRecording
Processing == ~isRecording /\ \E i \in Ids : Stopping(i) \/ InFlight(i)
Idle == ~isRecording /\ ~Processing

\* Idle with nothing left over: no recorder capturing, no permission request
\* pending, the segment buffer empty.
IdleAtRest ==
    /\ Idle
    /\ audioChunks = <<>>
    /\ \A i \in Ids : recorder[i] # "recording" /\ startPc[i] # "awaitMedia"

\* The controller's fields, the devices, the runs and the Notices.
effects == <<isRecording, mediaRecorder, audioChunks, startPc, recorder, run, notices>>

----------------------------------------------------------------------------
(* Claims *)

\* C1: every handleStop run that settles has reset audioChunks exactly once,
\* and audioChunks is empty when the run returns, whatever the outcome; a run
\* that has not settled has not reset it.
C1_ClearedExactlyOnce ==
    /\ [](\A i \in Ids : run[i].clears = (IF run[i].pc = "done" THEN 1 ELSE 0))
    /\ [][\A i \in Ids : (run[i].pc # "done" /\ run'[i].pc = "done")
                            => audioChunks' = <<>>]_vars

\* A run has settled after a failure, with its one reset done and the buffer empty.
C1_Witness ==
    \E i \in Ids : /\ run[i].pc = "done" /\ run[i].errNotices = 1
                   /\ run[i].clears = 1 /\ audioChunks = <<>>

\* C2: every started run eventually ends with the controller back in Idle
\* (not recording, no run in flight, segment buffer empty), given that every
\* external call settles.
C2_ReturnsToIdle ==
    \A i \in Ids : (startPc[i] = "awaitMedia") ~> IdleAtRest

\* C3 as stated: whenever transcription and refinement both succeeded, the
\* editor got the refined text exactly once.
C3_AlwaysDelivered ==
    \A i \in Ids : (run[i].pc = "done" /\ run[i].genOk)
                      => run[i].sinkCalls = 1 /\ run[i].sinkText = run[i].completion

\* C3 amended: when transcription and refinement both succeeded and the active
\* view had a Markdown editor, the editor got exactly the refined text, exactly
\* once; with no such editor nothing is handed over; no run calls the editor
\* more than once.
C3_DeliveredOnceToEditor ==
    \A i \in Ids :
        /\ run[i].sinkCalls <= 1
        /\ (run[i].pc = "done" /\ run[i].genOk /\ run[i].hadEditor)
              => run[i].sinkCalls = 1 /\ run[i].sinkText = run[i].completion
        /\ (run[i].pc = "done" /\ run[i].genOk /\ ~run[i].hadEditor)
              => run[i].sinkCalls = 0

\* A run delivered its refined text to the editor.
C3_Witness ==
    \E i \in Ids : /\ run[i].pc = "done" /\ run[i].genOk /\ run[i].hadEditor
                   /\ run[i].sinkCalls = 1 /\ run[i].sinkText \in Completions

\* C4: a run whose recognition response carried no transcript never called
\* cleanText, sent no generative request, never called the editor, and has
\* reset audioChunks and returned (so the reset precedes Idle).
C4_TranscriptionFailureAborts ==
    \A i \in Ids : run[i].noTranscript
                      => /\ run[i].cleanCalls = 0 /\ run[i].genCalls = 0
                         /\ run[i].sinkCalls = 0
                         /\ run[i].pc = "done" /\ run[i].clears = 1

\* A transcription failure has been handled and the controller is Idle.
C4_Witness ==
    \E i \in Ids : run[i].noTranscript /\ run[i].pc = "done" /\ Idle

\* C5: a run whose refinement failed (no client, or the generative request
\* failed) handed nothing to the editor, the raw transcript included.
C5_RefinementFailureAborts ==
    \A i \in Ids : (run[i].pc = "done" /\ run[i].cleanCalls = 1 /\ ~run[i].genOk)
                      => run[i].sinkCalls = 0 /\ run[i].sinkText = NoText

\* A generative request failed and its run has returned.
C5_Witness ==
    \E i \in Ids : /\ run[i].pc = "done" /\ run[i].cleanCalls = 1
                   /\ run[i].genCalls = 1 /\ ~run[i].genOk /\ run[i].sinkCalls = 0

\* C6: getUserMedia is requested (a startRecording() call goes ahead) only
\* when the controller is Idle, never while Recording or Processing.
C6_StartOnlyFromIdle ==
    [][\A i \in Ids : (startPc[i] = "none" /\ startPc'[i] = "awaitMedia") => Idle]_vars

\* C7: toggleRecording() goes to stopRecording() when Recording (the flag is
\* cleared, the recorder it holds is no longer recording, no start is
\* requested) and changes nothing when Processing.
C7_ToggleWhileProcessingIsNoOp ==
    [][toggleRecording =>
          IF Recording
          THEN /\ ~isRecording' /\ recorder'[mediaRecorder] # "recording"
               /\ startPc' = startPc
          ELSE Processing => UNCHANGED effects]_vars

\* C8: stopRecording() called while not recording changes neither the flag,
\* the recorder, the buffer, the devices nor the runs, and shows no Notice.
C8_StopWhileNotRecordingIsNoOp ==
    [][(~isRecording /\ stopRecording) => UNCHANGED effects]_vars

\* stopRecording() can be called while a recorder is held but the controller
\* is not recording, with a run still in flight: the call leaves this state
\* as it is.
C8_Witness ==
    /\ ~isRecording /\ mediaRecorder # NULL /\ \E i \in Ids : InFlight(i)
    /\ ENABLED stopRecording

\* C9: handleStop passes transcribeAudio a non-empty blob only; no
\* recognition request carries empty audio.
C9_NoEmptyBlobTranscribed ==
    \A i \in Ids : run[i].pc \in {"reading", "fetching"} => run[i].blob # <<>>

\* C10: a startRecording() that fails (getUserMedia rejecting, or the
\* recorder failing to start) leaves the flag, the buffer, the runs and every
\* other recorder as they were, so an Idle controller stays Idle, and shows
\* the microphone-error Notice; the failed call's recorder, if one was built,
\* never records, never delivers a segment and never gets a run.
C10_FailedStartLeavesIdle ==
    /\ [][\A i \in Ids : (startPc[i] = "awaitMedia" /\ startPc'[i] = "failed")
            => /\ UNCHANGED <<isRecording, audioChunks, run>>
               /\ \A j \in Ids \ {i} : recorder'[j] = recorder[j]
               /\ Idle => Idle'
               /\ notices' = Notify(NoticeMicError)]_vars
    /\ [](\A i \in Ids : startPc[i] = "failed"
            => /\ recorder[i] \in {"none", "built-not-started"}
               /\ run[i].pc = "none"
               /\ \A k \in 1..Len(audioChunks) : audioChunks[k].rec # i)

\* A start was refused, the Notice is up and the controller is Idle.
C10_Witness ==
    \E i \in Ids : /\ startPc[i] = "failed" /\ Idle
                   /\ notices[NoticeMicError] >= 1

\* C11: every failure is shown as a Notice and no run ends silently: a
\* refused start has shown the microphone-error Notice, a run whose blob
\* read failed has shown an error Notice, and a run that has returned either
\* handed text to the editor or showed the processing-error Notice.
C11_NoSilentOutcome ==
    /\ (\E i \in Ids : startPc[i] = "failed") => notices[NoticeMicError] >= 1
    /\ \A i \in Ids :
        /\ run[i].pc = "hung" => run[i].errNotices >= 1
        /\ run[i].pc = "done" => run[i].sinkCalls >= 1 \/ run[i].errNotices >= 1

\* C12: when handleStop calls cleanText, it fails at once, with no generative
\* request sent, exactly if settings.geminiApiKey is empty at that moment;
\* with a key configured, also one entered after onload, it sends one request.
C12_RefineFollowsCredential ==
    [][\A i \in Ids :
          (run[i].cleanCalls = 0 /\ run'[i].cleanCalls = 1)
             => IF settings = ""
                THEN run'[i].genCalls = 0 /\ run'[i].pc = "done"
                ELSE run'[i].genCalls = 1 /\ run'[i].pc = "generating"]_vars

\* C13: at most one session exists: never two recorders capturing, and never
\* a recorder capturing while an earlier session's recorder is still being
\* stopped or its handleStop run is in flight.
C13_AtMostOneSession ==
    \A i, j \in Ids :
        (i # j /\ recorder[j] = "recording")
           => recorder[i] # "recording" /\ ~Stopping(i) /\ ~InFlight(i)

\* The segments of audioChunks that recorder i delivered.
OwnChunks(chunks, i) == SelectSeq(chunks, LAMBDA c : c.rec = i)

\* C14: the reset at the end of a session's run discards only that session's
\* segments, and no segment is appended while a run is in flight.
C14_OneFlowAtATime ==
    /\ [][\A i \in Ids : (run[i].pc # "done" /\ run'[i].pc = "done")
                            => OwnChunks(audioChunks, i) = audioChunks]_vars
    /\ [][Len(audioChunks') > Len(audioChunks)
             => \A i \in Ids : ~InFlight(i)]_vars

\* C15: the blob handleStop passes to transcribeAudio is the concatenation,
\* in arrival order, of exactly the segments its own recorder delivered:
\* the one segment of its dataavailable event, nothing lost, nothing foreign.
C15_BlobIsOwnSegments ==
    [][\A i \in Ids :
          (run[i].pc = "none" /\ run'[i].pc = "reading")
             => /\ Len(OwnChunks(audioChunks, i)) = 1
                /\ run'[i].blob = Blob(OwnChunks(audioChunks, i))]_vars

\* C16: a segment is appended to audioChunks only while the controller is
\* Recording.
C16_AppendOnlyWhileRecording ==
    [][Len(audioChunks') > Len(audioChunks) => isRecording]_vars

\* C17: handleStop runs only from the recorder's stop event, and between the
\* stop() call and that event the controller is still Recording.
C17_RecordingUntilConfirmed ==
    /\ \A i \in Ids : run[i].pc # "none" => recorder[i] = "inactive"
    /\ \A i \in Ids : (recorder[i] = "flushing" /\ mediaRecorder = i) => isRecording

\* C18: cleanText is called with a non-empty transcript only: no generative
\* request is in flight for an empty transcript.
C18_RefineOnlyNonEmpty ==
    \A i \in Ids : (run[i].pc = "generating" /\ run[i].cleanCalls = 1)
                      => run[i].transcript # "" /\ run[i].prompt # Prompt("")

\* C19: a recorder that was started and not yet stopped is the one
\* this.mediaRecorder refers to, with isRecording true, so stopRecording()
\* stops it.
C19_NoOrphanedRecorder ==
    \A i \in Ids : recorder[i] = "recording" => mediaRecorder = i /\ isRecording

\* C20: once the blob read has ended and the recognition request has
\* settled, transcribeAudio's promise settles, so every handleStop run that
\* started reading reaches its cleanup and returns.
C20_TranscribeAlwaysSettles ==
    \A i \in Ids : (run[i].pc = "reading") ~> (run[i].pc = "done" /\ run[i].clears = 1)

====
